---- MODULE Spec2Model ----
(***************************************************************************)
(* Host record decoding of nmap_xml_parser (src/src/host.rs).              *)
(*                                                                         *)
(* A roxmltree node is a record [tag, attrs, children]; attrs is a         *)
(* function from attribute names to attribute values (TLA+ strings), an    *)
(* attribute being absent when its name is not in the domain.              *)
(* Option<T> is a sequence of length 0 (None) or 1 (Some), Result<T,Error> *)
(* is [ok |-> TRUE, val |-> v] or [ok |-> FALSE, err |-> message].         *)
(* A TLA+ string cannot contain the backquote character, so the message    *)
(* texts of the source are written here without their backquotes.          *)
(***************************************************************************)
EXTENDS Integers, Sequences, FiniteSets, TLC

None == <<>>
Some(v) == <<v>>
Ok(v) == [ok |-> TRUE, val |-> v]
Err(m) == [ok |-> FALSE, err |-> m]

\* roxmltree Node::attribute: the value of the attribute, if the node has it
Attr(n, name) == IF name \in DOMAIN n.attrs THEN Some(n.attrs[name]) ELSE None

Char(s, i) == SubSeq(s, i, i)

\***************************************************************************
\* Decimal and hexadecimal digits
\***************************************************************************
DecDigits == "0123456789"
HexDigits == "0123456789abcdefABCDEF"

IsDigit(c) == \E i \in 1..10 : Char(DecDigits, i) = c
DigitVal(c) == (CHOOSE i \in 1..10 : Char(DecDigits, i) = c) - 1
IsHexDigit(c) == \E i \in 1..22 : Char(HexDigits, i) = c
HexVal(c) == LET i == CHOOSE j \in 1..22 : Char(HexDigits, j) = c
             IN IF i <= 16 THEN i - 1 ELSE i - 7

AllDigits(s) == \A i \in 1..Len(s) : IsDigit(Char(s, i))
AllHexDigits(s) == \A i \in 1..Len(s) : IsHexDigit(Char(s, i))

RECURSIVE StripZeros(_)
StripZeros(s) ==
    IF Len(s) > 1 /\ Char(s, 1) = "0" THEN StripZeros(SubSeq(s, 2, Len(s))) ELSE s

\* a <= b for two strings of decimal digits without leading zeros
RECURSIVE DigitsLeqFrom(_, _, _)
DigitsLeqFrom(a, b, i) ==
    IF i > Len(a) THEN TRUE
    ELSE IF DigitVal(Char(a, i)) < DigitVal(Char(b, i)) THEN TRUE
    ELSE IF DigitVal(Char(a, i)) > DigitVal(Char(b, i)) THEN FALSE
    ELSE DigitsLeqFrom(a, b, i + 1)

DigitsLeq(a, b) ==
    \/ Len(a) < Len(b)
    \/ Len(a) = Len(b) /\ DigitsLeqFrom(a, b, 1)

\***************************************************************************
\* str::parse::<i64>.  The value does not fit a TLC integer, so an i64 is
\* [neg, mag]: its sign and the decimal digits of its magnitude without
\* leading zeros; the range test keeps the 64 bit width.
\***************************************************************************
I64MaxMag == "9223372036854775807"
I64MinMag == "9223372036854775808"

parse_i64(s) ==
    LET signed == Len(s) > 0 /\ Char(s, 1) \in {"+", "-"}
        neg == Len(s) > 0 /\ Char(s, 1) = "-"
        body == IF signed THEN SubSeq(s, 2, Len(s)) ELSE s
        mag == StripZeros(body)
    IN  IF Len(body) = 0 \/ ~AllDigits(body) THEN Err("invalid digit")
        ELSE IF neg /\ ~DigitsLeq(mag, I64MinMag) THEN Err("number too small")
        ELSE IF ~neg /\ ~DigitsLeq(mag, I64MaxMag) THEN Err("number too large")
        ELSE Ok([neg |-> neg /\ mag # "0", mag |-> mag])

\***************************************************************************
\* str::parse::<u8>: an optional "+", then digits, the value at most 255
\***************************************************************************
U8Max == 255

RECURSIVE DecValue(_, _, _)
DecValue(s, i, acc) ==
    IF i > Len(s) THEN acc ELSE DecValue(s, i + 1, acc * 10 + DigitVal(Char(s, i)))

parse_u8(s) ==
    LET body == IF Len(s) > 0 /\ Char(s, 1) = "+" THEN SubSeq(s, 2, Len(s)) ELSE s
        mag == StripZeros(body)
        value == DecValue(mag, 1, 0)
    IN  IF Len(body) = 0 \/ ~AllDigits(body) THEN Err("invalid digit")
        ELSE IF Len(mag) > 3 \/ value > U8Max THEN Err("number too large")
        ELSE Ok(value)

\***************************************************************************
\* str::parse::<IpAddr>: a dotted quad, or colon separated groups of up to
\* four hexadecimal digits with at most one "::".  The IPv6 form with an
\* embedded dotted quad is not modelled; no input of the model has it.
\***************************************************************************
RECURSIVE SplitFrom(_, _, _, _)
SplitFrom(s, sep, i, cur) ==
    IF i > Len(s) THEN <<cur>>
    ELSE IF Char(s, i) = sep THEN <<cur>> \o SplitFrom(s, sep, i + 1, "")
    ELSE SplitFrom(s, sep, i + 1, cur \o Char(s, i))

Split(s, sep) == SplitFrom(s, sep, 1, "")

IsOctet(g) ==
    /\ Len(g) \in 1..3
    /\ AllDigits(g)
    /\ (Len(g) > 1 => Char(g, 1) # "0")
    /\ DecValue(g, 1, 0) <= U8Max

IsGroup(g) == Len(g) \in 1..4 /\ AllHexDigits(g)

RECURSIVE HexValue(_, _, _)
HexValue(s, i, acc) ==
    IF i > Len(s) THEN acc ELSE HexValue(s, i + 1, acc * 16 + HexVal(Char(s, i)))

parse_ipv4(s) ==
    LET parts == Split(s, ".")
    IN  IF Len(parts) = 4 /\ \A i \in 1..4 : IsOctet(parts[i])
        THEN Ok([v |-> 4, parts |-> [i \in 1..4 |-> DecValue(parts[i], 1, 0)]])
        ELSE Err("invalid IPv4 address syntax")

\* the groups of one side of "::" (none when the side is empty)
Groups(s) == IF s = "" THEN <<>> ELSE Split(s, ":")

parse_ipv6(s) ==
    LET cuts == {i \in 1..(Len(s) - 1) : SubSeq(s, i, i + 1) = "::"}
        cut == CHOOSE i \in cuts : \A j \in cuts : i <= j
        head == IF cuts = {} THEN Groups(s) ELSE Groups(SubSeq(s, 1, cut - 1))
        tail == IF cuts = {} THEN <<>> ELSE Groups(SubSeq(s, cut + 2, Len(s)))
        gs == head \o tail
        zeros == [i \in 1..(8 - Len(gs)) |-> 0]
        val(q) == [i \in 1..Len(q) |-> HexValue(q[i], 1, 0)]
    IN  IF /\ \A i \in 1..Len(gs) : IsGroup(gs[i])
           /\ IF cuts = {} THEN Len(gs) = 8 ELSE Len(gs) <= 7
        THEN Ok([v |-> 6, parts |-> val(head) \o zeros \o val(tail)])
        ELSE Err("invalid IPv6 address syntax")

parse_IpAddr(s) ==
    LET v4 == parse_ipv4(s)
        v6 == parse_ipv6(s)
    IN  IF v4.ok THEN v4
        ELSE IF v6.ok THEN v6
        ELSE Err("invalid IP address syntax")

\***************************************************************************
\* crate::util macros and crate::port::PortInfo (their code is outside
\* host.rs): an absent attribute fails naming the attribute and the node,
\* a present but malformed value fails distinctly.
\***************************************************************************
MissingAttr(node_name, attr) ==
    "expected " \o attr \o " attribute in " \o node_name \o " node"
MalformedAttr(node_name, attr) ==
    "failed to parse " \o attr \o " attribute in " \o node_name \o " node"

node_attr_as_string(node, node_name, attr) ==
    LET a == Attr(node, attr)
    IN  IF a = None THEN Err(MissingAttr(node_name, attr))
        ELSE Ok(a[1])

\* parse_node_attr!(node, node_name, attr, u8)
parse_node_attr(node, node_name, attr) ==
    LET a == Attr(node, attr)
        p == parse_u8(a[1])
    IN  IF a = None THEN Err(MissingAttr(node_name, attr))
        ELSE IF ~p.ok THEN Err(MalformedAttr(node_name, attr))
        ELSE Ok(p.val)

\* the port decoder is opaque: it fails on a ports node it rejects and
\* otherwise returns a value determined by the node
PortInfo_default == [ports |-> <<>>]
PortInfo_parse(node) ==
    IF Attr(node, "malformed") # None THEN Err("failed to parse ports node")
    ELSE Ok([ports |-> <<node.attrs>>])

\***************************************************************************
\* Enumerations (strum EnumString: exact, case sensitive match)
\***************************************************************************
\* variant: the capitalised names of the variants are accepted too
HostState_from_str_variant_names(s) ==
    CASE s \in {"up", "Up"} -> Ok("Up")
      [] s \in {"down", "Down"} -> Ok("Down")
      [] s \in {"unknown", "Unknown"} -> Ok("Unknown")
      [] s \in {"skipped", "Skipped"} -> Ok("Skipped")
      [] OTHER -> Err("Matching variant not found")

HostState_from_str(s) ==
    CASE s = "up" -> Ok("Up")
      [] s = "down" -> Ok("Down")
      [] s = "unknown" -> Ok("Unknown")
      [] s = "skipped" -> Ok("Skipped")
      [] OTHER -> Err("Matching variant not found")

\* a variant is matched by its serialize and by its to_string literal
HostnameType_from_str(s) ==
    CASE s \in {"user", "User"} -> Ok("User")
      [] s \in {"PTR", "Dns"} -> Ok("Dns")
      [] OTHER -> Err("Matching variant not found")

\* <type as FromStr>::from_str
from_str(type, s) ==
    CASE type = "HostState" -> HostState_from_str(s)
      [] type = "HostnameType" -> HostnameType_from_str(s)

\* from_node_attr!(node, node_name, attr, type), type naming the enumeration
from_node_attr(node, node_name, attr, type) ==
    LET a == Attr(node, attr)
        p == from_str(type, a[1])
    IN  IF a = None THEN Err(MissingAttr(node_name, attr))
        ELSE IF ~p.ok THEN Err(MalformedAttr(node_name, attr))
        ELSE Ok(p.val)

\***************************************************************************
\* Leaf record parsers
\***************************************************************************
MacAddr(s) == [kind |-> "MacAddr", addr |-> s]
IpAddr(a) == [kind |-> "IpAddr", addr |-> a]

\* variant: the mac type is recognised in any letter case
parse_address_node_any_case(node) ==
    LET addrtype == Attr(node, "addrtype")
        addr == Attr(node, "addr")
        a == parse_IpAddr(addr[1])
    IN  IF addrtype = None THEN Err("expected addrtype attribute in address node")
        ELSE IF addr = None THEN Err("expected addr attribute in address node")
        ELSE IF addrtype[1] \in {"mac", "MAC", "Mac"} THEN Ok(MacAddr(addr[1]))
        ELSE IF ~a.ok THEN Err("failed to parse IP address")
        ELSE Ok(IpAddr(a.val))

\* variant: an address without addrtype is taken for an IP address
parse_address_node_untyped_ip(node) ==
    LET addrtype == Attr(node, "addrtype")
        addr == Attr(node, "addr")
        a == parse_IpAddr(addr[1])
    IN  IF addr = None THEN Err("expected addr attribute in address node")
        ELSE IF addrtype = Some("mac") THEN Ok(MacAddr(addr[1]))
        ELSE IF ~a.ok THEN Err("failed to parse IP address")
        ELSE Ok(IpAddr(a.val))

parse_address_node(node) ==
    LET addrtype == Attr(node, "addrtype")
        addr == Attr(node, "addr")
        a == parse_IpAddr(addr[1])
    IN  IF addrtype = None THEN Err("expected addrtype attribute in address node")
        ELSE IF addr = None THEN Err("expected addr attribute in address node")
        ELSE IF addrtype[1] = "mac" THEN Ok(MacAddr(addr[1]))
        ELSE IF ~a.ok THEN Err("failed to parse IP address")
        ELSE Ok(IpAddr(a.val))

HostStatus_parse(node) ==
    LET state == from_node_attr(node, "hoststatus", "state", "HostState")
        reason == node_attr_as_string(node, "hoststatus", "reason")
        reason_ttl == parse_node_attr(node, "hoststatus", "reason_ttl")
    IN  IF ~state.ok THEN state
        ELSE IF ~reason.ok THEN reason
        ELSE IF ~reason_ttl.ok THEN reason_ttl
        ELSE Ok([state |-> state.val, reason |-> reason.val,
                 reason_ttl |-> reason_ttl.val])

Hostname_parse(node) ==
    LET name == node_attr_as_string(node, "hostname", "name")
        source == from_node_attr(node, "hostname", "type", "HostnameType")
    IN  IF ~name.ok THEN name
        ELSE IF ~source.ok THEN source
        ELSE Ok([name |-> name.val, source |-> source.val])

Script_parse(node) ==
    LET id == node_attr_as_string(node, "script", "id")
        output == node_attr_as_string(node, "script", "output")
    IN  IF ~id.ok THEN id
        ELSE IF ~output.ok THEN output
        ELSE Ok([id |-> id.val, output |-> output.val])

\***************************************************************************
\* Collection parsers: r is the vector built so far, i the next child
\***************************************************************************
\* variant: each script is put in front of the ones found before it
RECURSIVE hostscript_loop_prepend(_, _, _)
hostscript_loop_prepend(children, i, r) ==
    LET s == Script_parse(children[i])
    IN  IF i > Len(children) THEN Ok(r)
        ELSE IF children[i].tag = "script"
             THEN IF s.ok THEN hostscript_loop_prepend(children, i + 1, <<s.val>> \o r)
                  ELSE s
             ELSE hostscript_loop_prepend(children, i + 1, r)

RECURSIVE hostscript_loop(_, _, _)
hostscript_loop(children, i, r) ==
    LET s == Script_parse(children[i])
    IN  IF i > Len(children) THEN Ok(r)
        ELSE IF children[i].tag = "script"
             THEN IF s.ok THEN hostscript_loop(children, i + 1, Append(r, s.val))
                  ELSE s
             ELSE hostscript_loop(children, i + 1, r)

parse_hostscript_node(node) == hostscript_loop(node.children, 1, <<>>)

RECURSIVE hostnames_loop(_, _, _)
hostnames_loop(children, i, r) ==
    LET h == Hostname_parse(children[i])
    IN  IF i > Len(children) THEN Ok(r)
        ELSE IF children[i].tag = "hostname"
             THEN IF h.ok THEN hostnames_loop(children, i + 1, Append(r, h.val))
                  ELSE h
             ELSE hostnames_loop(children, i + 1, r)

parse_hostnames_node(node) == hostnames_loop(node.children, 1, <<>>)

\***************************************************************************
\* Host::parse, step by step
\***************************************************************************
\* the timestamps: Option<&str> -> Option<Result<i64>> -> Result<Option<i64>>
parse_scan_start_time(n) ==
    LET a == Attr(n, "starttime")
        p == parse_i64(a[1])
    IN  IF a = None THEN Ok(None)
        ELSE IF ~p.ok THEN Err("failed to parse host start time")
        ELSE Ok(Some(p.val))

\* variant: the end time is read from the starttime attribute
parse_scan_end_time_of_start(n) ==
    LET a == Attr(n, "starttime")
        p == parse_i64(a[1])
    IN  IF a = None THEN Ok(None)
        ELSE IF ~p.ok THEN Err("failed to parse host end time")
        ELSE Ok(Some(p.val))

parse_scan_end_time(n) ==
    LET a == Attr(n, "endtime")
        p == parse_i64(a[1])
    IN  IF a = None THEN Ok(None)
        ELSE IF ~p.ok THEN Err("failed to parse host end time")
        ELSE Ok(Some(p.val))

\* the accumulators as declared before the loop
InitLocals ==
    [status |-> None, host_names |-> <<>>, port_info |-> PortInfo_default,
     scripts |-> <<>>, addresses |-> <<>>]

\* the arms of the match on the child's tag, l the accumulators
OnAddress(child, l) ==
    LET a == parse_address_node(child)
    IN  IF a.ok THEN Ok([l EXCEPT !.addresses = Append(@, a.val)]) ELSE a

\* variant: a status already found is kept
OnStatus_first_wins(child, l) ==
    LET s == HostStatus_parse(child)
    IN  IF ~s.ok THEN s
        ELSE IF l.status # None THEN Ok(l)
        ELSE Ok([l EXCEPT !.status = Some(s.val)])

\* variant: a status child that fails to decode is skipped
OnStatus_skip_malformed(child, l) ==
    LET s == HostStatus_parse(child)
    IN  IF s.ok THEN Ok([l EXCEPT !.status = Some(s.val)]) ELSE Ok(l)

OnStatus(child, l) ==
    LET s == HostStatus_parse(child)
    IN  IF s.ok THEN Ok([l EXCEPT !.status = Some(s.val)]) ELSE s

\* variant: the names of a later container are added to the earlier ones
OnHostnames_extend(child, l) ==
    LET h == parse_hostnames_node(child)
    IN  IF h.ok THEN Ok([l EXCEPT !.host_names = @ \o h.val]) ELSE h

OnHostnames(child, l) ==
    LET h == parse_hostnames_node(child)
    IN  IF h.ok THEN Ok([l EXCEPT !.host_names = h.val]) ELSE h

OnHostscript(child, l) ==
    LET r == parse_hostscript_node(child)
    IN  IF r.ok THEN Ok([l EXCEPT !.scripts = r.val]) ELSE r

OnPorts(child, l) ==
    LET p == PortInfo_parse(child)
    IN  IF p.ok THEN Ok([l EXCEPT !.port_info = p.val]) ELSE p

\* variant: a child with an unknown tag is an error
OnOther_strict(child, l) == Err("unexpected child of host node")

OnOther(child, l) == Ok(l)

\* the body of the loop
MatchChild(child, l) ==
    CASE child.tag = "address" -> OnAddress(child, l)
      [] child.tag = "status" -> OnStatus(child, l)
      [] child.tag = "hostnames" -> OnHostnames(child, l)
      [] child.tag = "hostscript" -> OnHostscript(child, l)
      [] child.tag = "ports" -> OnPorts(child, l)
      [] OTHER -> OnOther(child, l)

\* variant: a host without a status gets a default one
Assemble_default_status(l, start, end) ==
    Ok([addresses |-> l.addresses, scripts |-> l.scripts,
        status |-> IF l.status = None
                   THEN [state |-> "Unknown", reason |-> "", reason_ttl |-> 0]
                   ELSE l.status[1],
        host_names |-> l.host_names, port_info |-> l.port_info,
        scan_start_time |-> start, scan_end_time |-> end])

\* after the loop: the status is required, then the Host is assembled
Assemble(l, start, end) ==
    IF l.status = None THEN Err("expected status node for host")
    ELSE Ok([addresses |-> l.addresses, scripts |-> l.scripts,
             status |-> l.status[1], host_names |-> l.host_names,
             port_info |-> l.port_info,
             scan_start_time |-> start, scan_end_time |-> end])

RECURSIVE WalkChildren(_, _, _)
WalkChildren(children, i, l) ==
    LET m == MatchChild(children[i], l)
    IN  IF i > Len(children) THEN Ok(l)
        ELSE IF m.ok THEN WalkChildren(children, i + 1, m.val)
        ELSE m

\* Host::parse as a function of the node
Host_parse(n) ==
    LET start == parse_scan_start_time(n)
        end == parse_scan_end_time(n)
        walk == WalkChildren(n.children, 1, InitLocals)
    IN  IF ~start.ok THEN start
        ELSE IF ~end.ok THEN end
        ELSE IF ~walk.ok THEN walk
        ELSE Assemble(walk.val, start.val, end.val)

\***************************************************************************
\* State: the node being decoded, the position in Host::parse, its locals
\* and the value it returns
\***************************************************************************
VARIABLES node, pc, child_idx, scan_start_time, scan_end_time, status,
          host_names, port_info, scripts, addresses, result

locals == <<status, host_names, port_info, scripts, addresses>>
vars == <<node, pc, child_idx, scan_start_time, scan_end_time, status,
          host_names, port_info, scripts, addresses, result>>

Locals ==
    [status |-> status, host_names |-> host_names, port_info |-> port_info,
     scripts |-> scripts, addresses |-> addresses]

\***************************************************************************
\* Input nodes
\***************************************************************************
MaxChildren == 3
MaxItems == 3

OptOf(S) == {None} \cup {Some(v) : v \in S}
\* the attributes of a node from a record of optional values
MkAttrs(opts) == [k \in {a \in DOMAIN opts : opts[a] # None} |-> opts[k][1]]
NoAttrs == MkAttrs([none |-> None])
Node(tag, attrs, children) == [tag |-> tag, attrs |-> attrs, children |-> children]
SeqsUpTo(S, n) == UNION {[1..k -> S] : k \in 0..n}

StatusNode(state, reason, ttl) ==
    Node("status", MkAttrs([state |-> state, reason |-> reason, reason_ttl |-> ttl]), <<>>)
AddressNode(addrtype, addr) ==
    Node("address", MkAttrs([addrtype |-> addrtype, addr |-> addr]), <<>>)
HostnameNode(name, type) ==
    Node("hostname", MkAttrs([name |-> name, type |-> type]), <<>>)
ScriptNode(id, output) ==
    Node("script", MkAttrs([id |-> id, output |-> output]), <<>>)
\* an element that no parser of this file knows, carrying attributes that
\* would fail every leaf parser and a child that looks like a status
ElemNode ==
    Node("elem", MkAttrs([key |-> Some("date"), addr |-> Some("N/A"), state |-> Some("N/A")]),
         <<StatusNode(Some("up"), Some("nested"), Some("1"))>>)
TimesNode == Node("times", MkAttrs([srtt |-> Some("5263")]), <<>>)
PortsNode(malformed) == Node("ports", MkAttrs([malformed |-> malformed]), <<>>)

TimeStrings ==
    {"1589292535", "1623467939", "NOT A NUMBER", "", "-", "+5", "-5", "007", "-0", " 5",
     "9223372036854775807", "9223372036854775808",
     "-9223372036854775808", "-9223372036854775809"}
StateStrings == {"up", "down", "unknown", "skipped", "Up", ""}
ReasonStrings == {"no-response", ""}
TtlStrings == {"0", "255", "256", "-1", "x", "+7", "064", ""}
AddrtypeStrings == {"mac", "ipv4", "ipv6", "MAC", ""}
AddrStrings ==
    {"192.168.59.234", "00:11:22:33:44:55", "::1", "fe80::1:ff", "256.0.0.1",
     "not an ip", ""}

StatusNodes ==
    {StatusNode(s, r, t) : s \in OptOf(StateStrings), r \in OptOf(ReasonStrings),
                           t \in OptOf(TtlStrings)}
AddressNodes == {AddressNode(t, a) : t \in OptOf(AddrtypeStrings), a \in OptOf(AddrStrings)}
HostnameItems ==
    {HostnameNode(Some("a.example"), Some("user")), HostnameNode(Some("b.example"), Some("PTR")),
     HostnameNode(Some("a.example"), Some("dns")), HostnameNode(None, Some("user")),
     HostnameNode(Some("c.example"), None), ElemNode}
ScriptItems ==
    {ScriptNode(Some("smb-print-text"), Some("false")), ScriptNode(Some("smb2-time"), Some("date")),
     ScriptNode(None, Some("out")), ScriptNode(Some("id"), None), ElemNode}
HostnamesNodes == {Node("hostnames", NoAttrs, c) : c \in SeqsUpTo(HostnameItems, MaxItems)}
HostscriptNodes == {Node("hostscript", NoAttrs, c) : c \in SeqsUpTo(ScriptItems, MaxItems)}

StatusDown == StatusNode(Some("down"), Some("no-response"), Some("0"))
StatusUp == StatusNode(Some("up"), Some("conn-refused"), Some("64"))
StatusBad == StatusNode(Some("up"), Some("conn-refused"), Some("256"))
AddressIp == AddressNode(Some("ipv4"), Some("192.168.59.234"))
AddressMac == AddressNode(Some("mac"), Some("00:11:22:33:44:55"))
AddressBad == AddressNode(Some("ipv4"), Some("00:11:22:33:44:55"))

\* the children the child walk is explored with, in every order
WalkChildrenSet ==
    {StatusDown, StatusUp, StatusBad, AddressIp, AddressMac,
     Node("hostnames", NoAttrs, <<HostnameNode(Some("a.example"), Some("user")), ElemNode,
                                  HostnameNode(Some("b.example"), Some("PTR"))>>),
     Node("hostnames", NoAttrs, <<HostnameNode(Some("c.example"), Some("User"))>>),
     Node("hostscript", NoAttrs, <<ScriptNode(Some("smb-print-text"), Some("false")), ElemNode,
                                   ScriptNode(Some("smb2-time"), Some("date"))>>),
     Node("hostscript", NoAttrs, <<ScriptNode(Some("id"), Some("out"))>>),
     PortsNode(None), PortsNode(Some("yes")), ElemNode}

HostNode(start, end, children) ==
    Node("host", MkAttrs([starttime |-> start, endtime |-> end]), children)

\* every pair of timestamp attributes, around a few child lists
HostsTimes ==
    {HostNode(s, e, c) : s \in OptOf(TimeStrings), e \in OptOf(TimeStrings),
                         c \in {<<StatusDown, AddressIp>>, <<TimesNode>>, <<AddressBad, StatusDown>>}}
\* every list of walk children
HostsWalk ==
    {HostNode(Some("1589292535"), Some("1623467939"), c) :
        c \in SeqsUpTo(WalkChildrenSet, MaxChildren)}
\* every leaf and container node, alone and beside a valid status
HostsLeaf ==
    {HostNode(None, Some("1589292535"), c) :
        c \in UNION {{<<n>>, <<StatusDown, n>>, <<n, StatusUp>>} :
                     n \in StatusNodes \cup AddressNodes \cup HostnamesNodes \cup HostscriptNodes}}

Inputs == HostsTimes \cup HostsWalk \cup HostsLeaf

\***************************************************************************
\* Init and the steps of Host::parse
\***************************************************************************
Init ==
    /\ node \in Inputs
    /\ pc = "starttime"
    /\ child_idx = 1
    /\ scan_start_time = None
    /\ scan_end_time = None
    /\ status = InitLocals.status
    /\ host_names = InitLocals.host_names
    /\ port_info = InitLocals.port_info
    /\ scripts = InitLocals.scripts
    /\ addresses = InitLocals.addresses
    /\ result = None

\* return Err(e) out of Host::parse
Fail(r) ==
    /\ pc' = "done"
    /\ result' = Some(r)

ParseStartTime ==
    /\ pc = "starttime"
    /\ LET t == parse_scan_start_time(node)
       IN  IF t.ok
           THEN /\ scan_start_time' = t.val
                /\ pc' = "endtime"
                /\ UNCHANGED result
           ELSE /\ Fail(t)
                /\ UNCHANGED scan_start_time
    /\ UNCHANGED <<node, child_idx, scan_end_time, locals>>

ParseEndTime ==
    /\ pc = "endtime"
    /\ LET t == parse_scan_end_time(node)
       IN  IF t.ok
           THEN /\ scan_end_time' = t.val
                /\ pc' = "children"
                /\ UNCHANGED result
           ELSE /\ Fail(t)
                /\ UNCHANGED scan_end_time
    /\ UNCHANGED <<node, child_idx, scan_start_time, locals>>

ForChild ==
    /\ pc = "children"
    /\ child_idx <= Len(node.children)
    /\ LET m == MatchChild(node.children[child_idx], Locals)
       IN  IF m.ok
           THEN /\ status' = m.val.status
                /\ host_names' = m.val.host_names
                /\ port_info' = m.val.port_info
                /\ scripts' = m.val.scripts
                /\ addresses' = m.val.addresses
                /\ child_idx' = child_idx + 1
                /\ UNCHANGED <<pc, result>>
           ELSE /\ Fail(m)
                /\ UNCHANGED <<child_idx, locals>>
    /\ UNCHANGED <<node, scan_start_time, scan_end_time>>

Return ==
    /\ pc = "children"
    /\ child_idx > Len(node.children)
    /\ pc' = "done"
    /\ result' = Some(Assemble(Locals, scan_start_time, scan_end_time))
    /\ UNCHANGED <<node, child_idx, scan_start_time, scan_end_time, locals>>

Next == ParseStartTime \/ ParseEndTime \/ ForChild \/ Return

Spec == Init /\ [][Next]_vars

Returned == pc = "done"
Res == result[1]

\* the steps compute Host::parse of the node
TypeOK ==
    /\ pc \in {"starttime", "endtime", "children", "done"}
    /\ child_idx \in 1..(Len(node.children) + 1)
    /\ Returned <=> result # None
    /\ Returned => Res = Host_parse(node)

\***************************************************************************
\* Vocabulary of the properties, stated on the input node alone
\***************************************************************************
Children == node.children
TagIdx(n, tag) == {i \in 1..Len(n.children) : n.children[i].tag = tag}
Last(S) == CHOOSE i \in S : \A j \in S : j <= i
First(S) == CHOOSE i \in S : \A j \in S : i <= j
KnownTags == {"address", "status", "hostnames", "hostscript", "ports"}

\* an optional sign and at least one decimal digit
SignedDigits(s) ==
    \/ Len(s) >= 1 /\ AllDigits(s)
    \/ Len(s) >= 2 /\ Char(s, 1) \in {"+", "-"} /\ AllDigits(SubSeq(s, 2, Len(s)))
Magnitude(s) == StripZeros(IF IsDigit(Char(s, 1)) THEN s ELSE SubSeq(s, 2, Len(s)))
\* the integer a string of SignedDigits denotes
IntegerOf(s) == [neg |-> Char(s, 1) = "-" /\ Magnitude(s) # "0", mag |-> Magnitude(s)]
InI64Range(s) ==
    IF Char(s, 1) = "-" THEN DigitsLeq(Magnitude(s), "9223372036854775808")
    ELSE DigitsLeq(Magnitude(s), "9223372036854775807")
\* a timestamp attribute that is absent, or an integer that fits 64 bits
TimeOk(a) == a = None \/ (SignedDigits(a[1]) /\ InI64Range(a[1]))
StartOk == TimeOk(Attr(node, "starttime"))
EndOk == TimeOk(Attr(node, "endtime"))

\* the result of decoding one item of a container, the first failure first
IsScript(n) == n.tag = "script"
IsHostname(n) == n.tag = "hostname"
ItemParse(tag, n) == IF tag = "script" THEN Script_parse(n) ELSE Hostname_parse(n)
ItemFailures(c, tag) ==
    {j \in 1..Len(c.children) : c.children[j].tag = tag /\ ~ItemParse(tag, c.children[j]).ok}
DecodedScripts(c) ==
    LET m == SelectSeq(c.children, IsScript)
    IN  [k \in 1..Len(m) |-> [id |-> m[k].attrs.id, output |-> m[k].attrs.output]]
DecodedNames(c) ==
    LET m == SelectSeq(c.children, IsHostname)
    IN  [k \in 1..Len(m) |->
            [name |-> m[k].attrs.name,
             source |-> IF m[k].attrs.type \in {"user", "User"} THEN "User" ELSE "Dns"]]

\* the failure of decoding one child of the host, None when it decodes
ChildFailure(c) ==
    CASE c.tag = "address" ->
           IF parse_address_node(c).ok THEN None ELSE Some(parse_address_node(c))
      [] c.tag = "status" ->
           IF HostStatus_parse(c).ok THEN None ELSE Some(HostStatus_parse(c))
      [] c.tag = "hostnames" ->
           IF ItemFailures(c, "hostname") = {} THEN None
           ELSE Some(Hostname_parse(c.children[First(ItemFailures(c, "hostname"))]))
      [] c.tag = "hostscript" ->
           IF ItemFailures(c, "script") = {} THEN None
           ELSE Some(Script_parse(c.children[First(ItemFailures(c, "script"))]))
      [] c.tag = "ports" ->
           IF PortInfo_parse(c).ok THEN None ELSE Some(PortInfo_parse(c))
      [] OTHER -> None

FailingChildren == {i \in 1..Len(Children) : ChildFailure(Children[i]) # None}
\* nothing of the node but, possibly, the status is at fault
AllDecode == StartOk /\ EndOk /\ FailingChildren = {}
HasStatus == TagIdx(node, "status") # {}

HostFields ==
    {"addresses", "scripts", "status", "host_names", "port_info",
     "scan_start_time", "scan_end_time"}

\* the loop is at a child with this tag
AtChild(tag) ==
    /\ pc = "children"
    /\ child_idx <= Len(Children)
    /\ Children[child_idx].tag = tag
Child == Children[child_idx]
\* the step returns this failure out of Host::parse
Fails(e) == pc' = "done" /\ result' = Some(Err(e))

\* what a valid status child is, and the state it names
StateVariant(s) ==
    CASE s = "up" -> "Up" [] s = "down" -> "Down"
      [] s = "unknown" -> "Unknown" [] s = "skipped" -> "Skipped"
UnsignedInRange(s) ==
    /\ SignedDigits(s)
    /\ Char(s, 1) # "-"
    /\ Len(Magnitude(s)) <= 3
    /\ \E v \in 0..U8Max : v = DecValue(Magnitude(s), 1, 0)
StatusValid(c) ==
    /\ Attr(c, "state") # None /\ c.attrs.state \in {"up", "down", "unknown", "skipped"}
    /\ Attr(c, "reason") # None
    /\ Attr(c, "reason_ttl") # None /\ UnsignedInRange(c.attrs.reason_ttl)

\* the node without its children of unknown tag
Keep(children, tags) == SelectSeq(children, LAMBDA c : c.tag \in tags)
StripChild(c) ==
    CASE c.tag = "hostnames" -> [c EXCEPT !.children = Keep(@, {"hostname"})]
      [] c.tag = "hostscript" -> [c EXCEPT !.children = Keep(@, {"script"})]
      [] OTHER -> c
Strip(n) ==
    [n EXCEPT !.children =
        [i \in 1..Len(Keep(n.children, KnownTags)) |-> StripChild(Keep(n.children, KnownTags)[i])]]

\* the children already dispatched, and those of them with a given tag
Dispatched == SubSeq(Children, 1, child_idx - 1)
DispatchedWith(tag) == SelectSeq(Dispatched, LAMBDA c : c.tag = tag)
LastWith(tag) == DispatchedWith(tag)[Len(DispatchedWith(tag))]

\***************************************************************************
\* C1: a host node without a status child, everything else decoding, fails
\* with "expected status node for host"; a Host that is returned carries the
\* status decoded from a status child; a node with a status child and nothing
\* malformed decodes.
\***************************************************************************
C1_StatusRequired ==
    Returned =>
        /\ (~HasStatus /\ AllDecode) => Res = Err("expected status node for host")
        /\ Res.ok => \E i \in TagIdx(node, "status") :
                        HostStatus_parse(Children[i]) = Ok(Res.val.status)
        /\ (HasStatus /\ AllDecode) => Res.ok

C1_Witness ==
    /\ Returned
    /\ ~HasStatus
    /\ Len(Children) >= 2
    /\ Attr(node, "starttime") # None
    /\ Res = Err("expected status node for host")

\***************************************************************************
\* C2 as stated: a timestamp attribute that is a well-formed integer is
\* decoded to that integer (and so does not fail the decode).
\***************************************************************************
C2_Original ==
    Returned =>
        /\ (Attr(node, "starttime") # None /\ SignedDigits(Attr(node, "starttime")[1]))
              => /\ Res # Err("failed to parse host start time")
                 /\ Res.ok => Res.val.scan_start_time
                                 = Some(IntegerOf(Attr(node, "starttime")[1]))
        /\ (Attr(node, "endtime") # None /\ SignedDigits(Attr(node, "endtime")[1]))
              => /\ Res # Err("failed to parse host end time")
                 /\ Res.ok => Res.val.scan_end_time
                                 = Some(IntegerOf(Attr(node, "endtime")[1]))

\***************************************************************************
\* C2 (amended): for starttime and endtime independently, an attribute that
\* is an integer within the signed 64 bit range is decoded to that integer,
\* an absent attribute gives an absent field and no failure, and an
\* attribute that is present but not numeric or outside that range fails the
\* decode with the start (resp. end) message, the start one first.
\***************************************************************************
C2_Timestamps ==
    Returned =>
        /\ ~StartOk => Res = Err("failed to parse host start time")
        /\ (StartOk /\ ~EndOk) => Res = Err("failed to parse host end time")
        /\ (StartOk /\ EndOk /\ ~Res.ok) =>
              Res.err \notin {"failed to parse host start time",
                              "failed to parse host end time"}
        /\ Res.ok =>
              /\ Res.val.scan_start_time =
                    IF Attr(node, "starttime") = None THEN None
                    ELSE Some(IntegerOf(Attr(node, "starttime")[1]))
              /\ Res.val.scan_end_time =
                    IF Attr(node, "endtime") = None THEN None
                    ELSE Some(IntegerOf(Attr(node, "endtime")[1]))

C2_Witness ==
    /\ Returned
    /\ Res.ok
    /\ Attr(node, "starttime") = Some("-9223372036854775808")
    /\ Res.val.scan_start_time = Some([neg |-> TRUE, mag |-> "9223372036854775808"])
    /\ Res.val.scan_end_time = None

\***************************************************************************
\* C3: an address child with both addrtype and addr: addrtype "mac" gives
\* MacAddr of the raw addr, whatever it is; any other addrtype gives IpAddr
\* of the parsed addr when it is a valid IP address and otherwise fails the
\* decode with "failed to parse IP address".
\***************************************************************************
C3_Address ==
    [][(AtChild("address") /\ Attr(Child, "addrtype") # None /\ Attr(Child, "addr") # None)
        => IF Child.attrs.addrtype = "mac"
           THEN pc' = "children" /\ addresses' = Append(addresses, MacAddr(Child.attrs.addr))
           ELSE IF parse_IpAddr(Child.attrs.addr).ok
           THEN /\ pc' = "children"
                /\ addresses' = Append(addresses, IpAddr(parse_IpAddr(Child.attrs.addr).val))
           ELSE Fails("failed to parse IP address")]_vars

C3_Witness ==
    /\ Returned
    /\ Res.ok
    /\ \E i \in 1..Len(Children) :
          /\ Children[i].tag = "address"
          /\ Attr(Children[i], "addrtype") = Some("mac")
          /\ Attr(Children[i], "addr") = Some("192.168.59.234")
    /\ Res.val.addresses = <<MacAddr("192.168.59.234")>>

\***************************************************************************
\* C4 as stated: an address child without addrtype whose addr is a valid IP
\* address is decoded to IpAddr of that value.
\***************************************************************************
C4_Original ==
    [][(AtChild("address") /\ Attr(Child, "addrtype") = None
          /\ Attr(Child, "addr") # None /\ parse_IpAddr(Child.attrs.addr).ok)
        => /\ pc' = "children"
           /\ addresses' = Append(addresses, IpAddr(parse_IpAddr(Child.attrs.addr).val))]_vars

\***************************************************************************
\* C4 (amended): an address child without addrtype fails the host decode
\* with "expected addrtype attribute in address node", whatever its addr.
\***************************************************************************
C4_AddrtypeRequired ==
    [][(AtChild("address") /\ Attr(Child, "addrtype") = None)
        => Fails("expected addrtype attribute in address node") /\ UNCHANGED addresses]_vars

C4_Witness ==
    /\ Returned
    /\ child_idx <= Len(Children)
    /\ Children[child_idx].tag = "address"
    /\ Attr(Children[child_idx], "addrtype") = None
    /\ Attr(Children[child_idx], "addr") = Some("192.168.59.234")
    /\ Res = Err("expected addrtype attribute in address node")

\***************************************************************************
\* C5: with more than one status child and nothing malformed the decode
\* succeeds and the status is the one of the last status child.
\***************************************************************************
C5_LastStatusWins ==
    (Returned /\ Cardinality(TagIdx(node, "status")) > 1 /\ AllDecode) =>
        /\ Res.ok
        /\ Ok(Res.val.status) = HostStatus_parse(Children[Last(TagIdx(node, "status"))])

C5_Witness ==
    /\ Returned
    /\ Res.ok
    /\ Cardinality(TagIdx(node, "status")) > 1
    /\ HostStatus_parse(Children[First(TagIdx(node, "status"))])
          # HostStatus_parse(Children[Last(TagIdx(node, "status"))])
    /\ Ok(Res.val.status) = HostStatus_parse(Children[Last(TagIdx(node, "status"))])

\***************************************************************************
\* C6: Host::parse returns a complete Host or the failure of the earliest
\* failing step: starttime, endtime, the children in document order (the
\* items of a container in document order), the missing status.
\***************************************************************************
C6_EarliestFailure ==
    Returned =>
        /\ Res.ok => DOMAIN Res.val = HostFields
        /\ IF ~StartOk THEN Res = Err("failed to parse host start time")
           ELSE IF ~EndOk THEN Res = Err("failed to parse host end time")
           ELSE IF FailingChildren # {}
                THEN Some(Res) = ChildFailure(Children[First(FailingChildren)])
           ELSE IF ~HasStatus THEN Res = Err("expected status node for host")
           ELSE Res.ok

C6_Witness ==
    /\ Returned
    /\ Len(Children) = 2
    /\ Children[1].tag = "status" /\ Children[2].tag = "status"
    /\ FailingChildren = {1}
    /\ ~Res.ok
    /\ Some(Res) = ChildFailure(Children[1])

\***************************************************************************
\* C7: the scripts (resp. host_names) of a decoded Host are the script
\* (resp. hostname) children of the hostscript (resp. hostnames) container,
\* one element each, in document order, with the child's attributes.
\***************************************************************************
C7_CollectionOrder ==
    (Returned /\ Res.ok) =>
        /\ TagIdx(node, "hostscript") # {} =>
              Res.val.scripts = DecodedScripts(Children[Last(TagIdx(node, "hostscript"))])
        /\ TagIdx(node, "hostnames") # {} =>
              Res.val.host_names = DecodedNames(Children[Last(TagIdx(node, "hostnames"))])

C7_Witness ==
    /\ Returned
    /\ Res.ok
    /\ \E i \in TagIdx(node, "hostscript") :
          /\ Len(Children[i].children) = 3
          /\ Children[i].children[2].tag = "elem"
    /\ Len(Res.val.scripts) = 2
    /\ Res.val.scripts[1] = [id |-> "smb-print-text", output |-> "false"]
    /\ Res.val.scripts[2] = [id |-> "smb2-time", output |-> "date"]

\***************************************************************************
\* C8: a status child decodes exactly when state is one of up, down,
\* unknown, skipped, reason is present and reason_ttl is an unsigned integer
\* in 0..255, and then to that state, reason and ttl; otherwise the host
\* decode fails, nothing being substituted.
\***************************************************************************
C8_HostStatus ==
    [][AtChild("status")
        => IF StatusValid(Child)
           THEN /\ pc' = "children"
                /\ status' = Some([state |-> StateVariant(Child.attrs.state),
                                   reason |-> Child.attrs.reason,
                                   reason_ttl |-> DecValue(Magnitude(Child.attrs.reason_ttl), 1, 0)])
           ELSE /\ pc' = "done"
                /\ ~result'[1].ok
                /\ UNCHANGED status]_vars

C8_Witness ==
    /\ Returned
    /\ Res.ok
    /\ Children = <<StatusNode(Some("skipped"), Some(""), Some("255"))>>
    /\ Res.val.status = [state |-> "Skipped", reason |-> "", reason_ttl |-> 255]

\***************************************************************************
\* C9: children with an unknown tag, of the host and of its containers, are
\* ignored: the node decodes to what it decodes to without them.
\***************************************************************************
C9_UnknownIgnored == Returned => Res = Host_parse(Strip(node))

C9_Witness ==
    /\ Returned
    /\ Res.ok
    /\ Len(Children) = 3
    /\ Len(Strip(node).children) = 2
    /\ \E i \in TagIdx(node, "hostscript") : StripChild(Children[i]) # Children[i]
    /\ Len(Res.val.scripts) = 2

\***************************************************************************
\* C10: addresses accumulate, host_names and scripts are replaced: during
\* the pass every accumulator holds what the children dispatched so far
\* give it and nothing else (addresses one entry per address child in
\* document order; host_names, scripts, status and port_info the value of
\* the last hostnames, hostscript, status and ports child alone, the initial
\* value without one), and a decoded Host has them after the last child.
\***************************************************************************
C10_Accumulators ==
    /\ (pc = "children" \/ (Returned /\ Res.ok)) =>
          /\ addresses = [k \in 1..Len(DispatchedWith("address")) |->
                             parse_address_node(DispatchedWith("address")[k]).val]
          /\ host_names = IF DispatchedWith("hostnames") = <<>> THEN <<>>
                          ELSE DecodedNames(LastWith("hostnames"))
          /\ scripts = IF DispatchedWith("hostscript") = <<>> THEN <<>>
                       ELSE DecodedScripts(LastWith("hostscript"))
          /\ status = IF DispatchedWith("status") = <<>> THEN None
                      ELSE Some(HostStatus_parse(LastWith("status")).val)
          /\ port_info = IF DispatchedWith("ports") = <<>> THEN PortInfo_default
                         ELSE PortInfo_parse(LastWith("ports")).val
    /\ (Returned /\ Res.ok) =>
          /\ Dispatched = Children
          /\ Res.val.addresses = addresses
          /\ Res.val.host_names = host_names
          /\ Res.val.scripts = scripts

C10_Witness ==
    /\ Returned
    /\ Res.ok
    /\ Cardinality(TagIdx(node, "hostnames")) = 2
    /\ Len(DecodedNames(Children[First(TagIdx(node, "hostnames"))])) = 2
    /\ Res.val.host_names = <<[name |-> "c.example", source |-> "User"]>>
====
